---- MODULE Spec2Model ----
(***************************************************************************)
(* Chubflix "Next Episode" stage (Stage.tsx): the episode navigation state *)
(* of a Stage instance, the snapshots its lifecycle handlers return to the *)
(* host, the title catalog built at construction and the debug log.        *)
(*                                                                         *)
(* Conventions.  A JavaScript string is a sequence of one-character        *)
(* strings; the literal pieces of a template literal are kept as single    *)
(* elements.  A value that may be null/undefined is a set with at most one *)
(* element: Null is {}, Some(x) is {x}.                                    *)
(***************************************************************************)
EXTENDS Integers, Sequences, FiniteSets, TLC

\* ------------------------------------------------------------------------
\* Bounds of the model
\* ------------------------------------------------------------------------

\* Date.now() is a logical clock that ticks once per logged event; handlers
\* are not started once the clock has reached MaxNow.
MaxNow == 7

\* Restore (setState) indices are drawn from -1 .. MaxRestore.
MaxRestore == 3

\* highestEpisodeReached values of a chat snapshot supplied at construction
\* are drawn from 0 .. MaxSeed.
MaxSeed == 2

\* Direct calls of addDebugLog are not started once the clock has reached
\* MaxLogged, which lies past the capacity of the log.
MaxLogged == 53

\* Greetings of the title catalog are a fixed opening followed by at most
\* MaxTail characters of TitleAlphabet.
MaxTail == 3

\* ------------------------------------------------------------------------
\* Nullable values and strings
\* ------------------------------------------------------------------------

Null == {}

Some(x) == {x}

The(s) == CHOOSE x \in s : TRUE

Max(a, b) == IF a >= b THEN a ELSE b

RECURSIVE NatStr(_)
NatStr(n) ==
    LET d == <<"0", "1", "2", "3", "4", "5", "6", "7", "8", "9">>
    IN  IF n < 10 THEN <<d[n + 1]>> ELSE NatStr(n \div 10) \o <<d[(n % 10) + 1]>>

\* `${n}` for an integer n.
NumStr(n) == IF n < 0 THEN <<"-">> \o NatStr(0 - n) ELSE NatStr(n)

\* ------------------------------------------------------------------------
\* Title extraction (extractTitleFromGreeting, extractEpisodeTitles)
\* ------------------------------------------------------------------------

\* Longest first line the fallback of extractTitleFromGreeting accepts.
MaxFirstLine == 50

MinOf(S) == CHOOSE x \in S : \A y \in S : x <= y

MaxOf(S) == CHOOSE x \in S : \A y \in S : x >= y

\* \s of a regular expression, and the characters String.trim removes.
IsSpace(c) == c \in {" ", "\t", "\n", "\r"}

\* \d of a regular expression.
IsDigit(c) == c \in {"0", "1", "2", "3", "4", "5", "6", "7", "8", "9"}

\* . of a regular expression: anything but a line terminator.
IsDot(c) == c \notin {"\n", "\r"}

\* Case folding of the /i flag, on the letters of the word Episode.
Lower(c) ==
    CASE c = "E" -> "e"
      [] c = "P" -> "p"
      [] c = "I" -> "i"
      [] c = "S" -> "s"
      [] c = "O" -> "o"
      [] c = "D" -> "d"
      [] OTHER -> c

\* String.prototype.trim
trim(s) ==
    LET keep == {i \in 1..Len(s) : ~IsSpace(s[i])}
    IN  IF keep = {} THEN <<>> ELSE SubSeq(s, MinOf(keep), MaxOf(keep))

\* The ends e of a lazy (.+?)(?:\n|$) that starts at position from.
LineEnds(s, from) ==
    {e \in from..Len(s) :
        /\ \A i \in from..e : IsDot(s[i])
        /\ (e = Len(s) \/ s[e + 1] = "\n")}

\* /^\*\*([^*]+)\*\*/ : the capture, or Null.
MatchBold(s) ==
    LET stars == {j \in 3..Len(s) : s[j] = "*"}
    IN  IF Len(s) >= 5 /\ s[1] = "*" /\ s[2] = "*" /\ stars # {}
        THEN LET j == MinOf(stars)
             IN  IF j >= 4 /\ j + 1 <= Len(s) /\ s[j + 1] = "*"
                 THEN Some(SubSeq(s, 3, j - 1))
                 ELSE Null
        ELSE Null

\* /^#\s+(.+?)(?:\n|$)/ : \s+ is greedy and gives back, .+? is lazy.
MatchHeading(s) ==
    LET ks == {k \in 2..Len(s) :
                  /\ \A i \in 2..k : IsSpace(s[i])
                  /\ LineEnds(s, k + 1) # {}}
    IN  IF Len(s) >= 1 /\ s[1] = "#" /\ ks # {}
        THEN LET k == MaxOf(ks)
             IN  Some(SubSeq(s, k + 1, MinOf(LineEnds(s, k + 1))))
        ELSE Null

\* /^"([^"]+)"/ : the capture, or Null.
MatchQuoted(s) ==
    LET quotes == {j \in 2..Len(s) : s[j] = "\""}
    IN  IF Len(s) >= 3 /\ s[1] = "\"" /\ quotes # {}
        THEN LET j == MinOf(quotes)
             IN  IF j >= 3 THEN Some(SubSeq(s, 2, j - 1)) ELSE Null
        ELSE Null

\* /^Episode\s+\d+:\s*(.+?)(?:\n|$)/i : \s+ and \d+ cannot give back (the
\* next item excludes their class), \s* is greedy and gives back.
MatchEpisode(s) ==
    LET word == <<"e", "p", "i", "s", "o", "d", "e">>
        n == Len(s)
        spaces == {k \in 8..n : \A i \in 8..k : IsSpace(s[i])}
        k == MaxOf(spaces)
        digits == {m \in (k + 1)..n : \A i \in (k + 1)..m : IsDigit(s[i])}
        m == MaxOf(digits)
        ts == {t \in (m + 1)..n :
                  /\ \A i \in (m + 2)..t : IsSpace(s[i])
                  /\ LineEnds(s, t + 1) # {}}
        t == MaxOf(ts)
    IN  IF /\ n >= 7
           /\ \A i \in 1..7 : Lower(s[i]) = word[i]
           /\ spaces # {}
           /\ digits # {}
           /\ m + 1 <= n
           /\ s[m + 1] = ":"
           /\ ts # {}
        THEN Some(SubSeq(s, t + 1, MinOf(LineEnds(s, t + 1))))
        ELSE Null

\* greeting.trim().split('\n')[0]
FirstLine(s) ==
    LET t == trim(s)
        nl == {i \in 1..Len(t) : t[i] = "\n"}
    IN  IF nl = {} THEN t ELSE SubSeq(t, 1, MinOf(nl) - 1)

\* firstLine.replace(/[*#"]/g, '')
StripMarkers(s) == SelectSeq(s, LAMBDA c : c \notin {"*", "#", "\""})

\* A variant of extractTitleFromGreeting that returns a capture as matched.
extractTitleRawCapture(greeting) ==
    LET t == trim(greeting)
    IN  IF MatchBold(t) # Null THEN MatchBold(t)
        ELSE IF MatchHeading(t) # Null THEN MatchHeading(t)
        ELSE IF MatchQuoted(t) # Null THEN MatchQuoted(t)
        ELSE IF MatchEpisode(t) # Null THEN MatchEpisode(t)
        ELSE IF FirstLine(greeting) # <<>> /\ Len(FirstLine(greeting)) <= MaxFirstLine
             THEN Some(trim(StripMarkers(FirstLine(greeting))))
             ELSE Null

\* A variant of extractTitleFromGreeting whose fallback refuses a first line
\* of exactly MaxFirstLine characters.
extractTitleShortLine(greeting) ==
    LET t == trim(greeting)
    IN  IF MatchBold(t) # Null THEN Some(trim(The(MatchBold(t))))
        ELSE IF MatchHeading(t) # Null THEN Some(trim(The(MatchHeading(t))))
        ELSE IF MatchQuoted(t) # Null THEN Some(trim(The(MatchQuoted(t))))
        ELSE IF MatchEpisode(t) # Null THEN Some(trim(The(MatchEpisode(t))))
        ELSE IF FirstLine(greeting) # <<>> /\ Len(FirstLine(greeting)) < MaxFirstLine
             THEN Some(trim(StripMarkers(FirstLine(greeting))))
             ELSE Null

\* extractTitleFromGreeting: the title (possibly the empty string), or Null.
extractTitleFromGreeting(greeting) ==
    LET t == trim(greeting)
    IN  IF MatchBold(t) # Null THEN Some(trim(The(MatchBold(t))))
        ELSE IF MatchHeading(t) # Null THEN Some(trim(The(MatchHeading(t))))
        ELSE IF MatchQuoted(t) # Null THEN Some(trim(The(MatchQuoted(t))))
        ELSE IF MatchEpisode(t) # Null THEN Some(trim(The(MatchEpisode(t))))
        ELSE IF FirstLine(greeting) # <<>> /\ Len(FirstLine(greeting)) <= MaxFirstLine
             THEN Some(trim(StripMarkers(FirstLine(greeting))))
             ELSE Null

\* `Episode ${n}`
DefaultTitle(n) == <<"Episode ">> \o NumStr(n)

\* title || fallback, for a nullable string: null and '' are both falsy.
OrElse(title, fallback) ==
    IF title = Null \/ The(title) = <<>> THEN fallback ELSE The(title)

\* An extractEpisodeTitles that titles the primary greeting only.
extractEpisodeTitlesPrimaryOnly(character) ==
    IF character.first_mes # Null /\ The(character.first_mes) # <<>>
    THEN <<OrElse(extractTitleFromGreeting(The(character.first_mes)),
                  DefaultTitle(1))>>
    ELSE <<>>

\* extractEpisodeTitles: no entry for a missing or empty first_mes, one
\* entry per alternate greeting when alternate_greetings is an array.
extractEpisodeTitles(character) ==
    LET first ==
            IF character.first_mes # Null /\ The(character.first_mes) # <<>>
            THEN <<OrElse(extractTitleFromGreeting(The(character.first_mes)),
                          DefaultTitle(1))>>
            ELSE <<>>
        alts ==
            IF character.alternate_greetings # Null
            THEN LET gs == The(character.alternate_greetings)
                 IN  [i \in 1..Len(gs) |->
                         OrElse(extractTitleFromGreeting(gs[i]), DefaultTitle(i + 1))]
            ELSE <<>>
    IN  first \o alts

\* ------------------------------------------------------------------------
\* State
\* ------------------------------------------------------------------------

VARIABLES
    data,                   \* the InitialData the constructor was given
    config,                 \* Stage.config
    currentEpisode,         \* Stage.currentEpisode
    totalEpisodes,          \* Stage.totalEpisodes
    episodeTitles,          \* Stage.episodeTitles
    characterName,          \* Stage.characterName
    highestEpisodeReached,  \* Stage.highestEpisodeReached
    completed,              \* Stage.completed
    debugLog,               \* Stage.debugLog: the timestamps of its entries
    now,                    \* Date.now(): the number of events logged so far
    response,               \* what the last load/beforePrompt/afterResponse returned
    lastOp,                 \* the last method of Stage that was called
    thrown,                 \* the exception new Stage(data) ended with, if any
    twin,                   \* a second Stage that gets the same calls: none or one
    onDebugUpdate,          \* Stage.onDebugUpdate: undefined, or the callback set
    observed                \* what getDebugLog() gave the callback when last invoked

vars == <<data, config, currentEpisode, totalEpisodes, episodeTitles,
          characterName, highestEpisodeReached, completed, debugLog, now,
          response, lastOp, thrown, twin, onDebugUpdate, observed>>

\* ------------------------------------------------------------------------
\* Construction inputs
\* ------------------------------------------------------------------------

\* Characters carry 0 .. MaxAlt alternate greetings.
MaxAlt == 2

Pilot == <<"*", "*", "P", "i", "l", "o", "t", "*", "*", "\n", "H", "e", "l", "l", "o">>

Twist == <<"*", "*", "T", "w", "i", "s", "t", "*", "*", "\n", "A", " ", "t", "u", "r", "n">>

Goodbye == <<"G", "o", "o", "d", "b", "y", "e", " ", "f", "o", "r", " ", "n", "o", "w">>

\* An entry of a greeting list that is not a string: null, a number, an
\* object.
NotAString == <<"[not a string]">>

\* k alternate greetings.
AltGreetings(k) == [i \in 1..k |-> IF i % 2 = 1 THEN Twist ELSE Goodbye]

\* The main character: name, first_mes and alternate_greetings may each be
\* absent (Null); an alternate_greetings that is not an array fails the same
\* test as an absent one and is Null here too.
Characters ==
    {[name |-> Some(<<"S", "o", "f", "i", "a">>),
      first_mes |-> Some(Pilot),
      alternate_greetings |-> IF k = 0 THEN Null ELSE Some(AltGreetings(k))] :
        k \in 0..MaxAlt}
    \cup {[name |-> Null, first_mes |-> Null,
           alternate_greetings |-> Some(AltGreetings(MaxAlt))]}
    \cup {[name |-> Some(<<>>), first_mes |-> Some(<<>>),
           alternate_greetings |-> Null]}
    \cup {[name |-> Some(<<"S", "o", "f", "i", "a">>), first_mes |-> Some(Pilot),
           alternate_greetings |-> Some(<<Twist, NotAString>>)]}

\* data.characters: absent, or an array with the main character first.
CharacterLists == {Null} \cup {Some(<<ch>>) : ch \in Characters}

\* data.config: absent, or an object that sets some of the options.
Configs ==
    {Null, Some([injectContext |-> FALSE]), Some([injectContext |-> TRUE]),
     Some([showProgress |-> FALSE])}

\* data.chatState: absent, or a chat snapshot persisted by an earlier session.
ChatStates ==
    {Null} \cup {Some([highestEpisodeReached |-> h, completed |-> c]) :
                    h \in 0..MaxSeed, c \in BOOLEAN}

\* data.messageState: absent, or a turn snapshot persisted by an earlier session.
MessageStates == {Null} \cup {Some([currentEpisode |-> k]) : k \in 0..MaxSeed}

\* Every construction input of the model.
InitialData ==
    [characters : CharacterLists, config : Configs,
     chatState : ChatStates, messageState : MessageStates]

\* The construction inputs of a new chat: nothing persisted yet.
NewChatData ==
    {d \in InitialData :
        /\ d.chatState = Null
        /\ d.messageState = Null
        /\ d.config \in {Null, Some([injectContext |-> FALSE])}}

\* The characters greetings are written with: the three markers, a letter,
\* a blank and a line break.
TitleAlphabet == {"*", "#", "\"", "a", " ", "\n"}

\* A first line two characters short of the longest the fallback accepts.
LongLine == [i \in 1..(MaxFirstLine - 2) |-> "a"]

\* The openings of the greetings: one per pattern of extractTitleFromGreeting
\* and near misses of them.
GreetingOpenings ==
    {<<>>,
     <<"*", "*">>,
     <<"*", "*", " ">>,
     <<" ", "*", "*">>,
     <<"#", " ">>,
     <<"\"">>,
     <<"E", "p", "i", "s", "o", "d", "e", " ", "3", ":">>,
     <<"e", "P", "I", "S", "O", "D", "E", " ", "\n", "1", "2", ":", " ">>,
     <<"E", "p", "i", "s", "o", "d", "e", "3", ":">>,
     <<"E", "p", "i", "s", "o", "d", "e", " ", ":">>,
     LongLine}

GreetingTails == UNION {[1..n -> TitleAlphabet] : n \in 0..MaxTail}

GreetingPool == {o \o t : o \in GreetingOpenings, t \in GreetingTails}

\* A character whose primary greeting and last alternate greeting are g.
CatalogCharacter(g) ==
    [name |-> Some(<<"S", "o", "f", "i", "a">>),
     first_mes |-> Some(g),
     alternate_greetings |-> Some(<<Twist, g>>)]

\* A character without a primary greeting whose only alternate greeting is g.
AlternateOnlyCharacter(g) ==
    [name |-> Some(<<"S", "o", "f", "i", "a">>),
     first_mes |-> Null,
     alternate_greetings |-> Some(<<g>>)]

CatalogCharacters ==
    {CatalogCharacter(g) : g \in GreetingPool}
        \cup {AlternateOnlyCharacter(g) : g \in GreetingOpenings}

\* The construction inputs of the title catalog.
CatalogData ==
    {[characters |-> Some(<<ch>>), config |-> Null,
      chatState |-> Null, messageState |-> Null] : ch \in CatalogCharacters}

\* ------------------------------------------------------------------------
\* Constructor
\* ------------------------------------------------------------------------

\* The field initialisers of Stage.config.
DefaultConfig ==
    [showEpisodeNumber |-> TRUE, showProgress |-> TRUE,
     buttonText |-> "Next Episode", injectContext |-> TRUE, theme |-> "chubflix"]

\* if (data.config) this.config = { ...this.config, ...data.config }
MergeConfig(d) ==
    IF d.config = Null THEN DefaultConfig
    ELSE [k \in DOMAIN DefaultConfig |->
             IF k \in DOMAIN The(d.config) THEN The(d.config)[k] ELSE DefaultConfig[k]]

\* The field initialisers of the internal state.
StageFields ==
    [currentEpisode |-> 0, totalEpisodes |-> 1, episodeTitles |-> <<>>,
     characterName |-> <<>>, highestEpisodeReached |-> 0, completed |-> FALSE]

\* greeting.trim() of extractTitleFromGreeting throws a TypeError when
\* greeting is not a string.
TitleThrows(greeting) == greeting = NotAString

\* extractEpisodeTitles throws when it extracts from an entry that is not a
\* string: a truthy first_mes, or any alternate greeting.
ExtractThrows(character) ==
    \/ character.first_mes # Null /\ TitleThrows(The(character.first_mes))
    \/ /\ character.alternate_greetings # Null
       /\ \E i \in 1..Len(The(character.alternate_greetings)) :
              TitleThrows(The(character.alternate_greetings)[i])

\* new Stage(d) ends with an exception: the constructor catches none.
ConstructorThrows(d) ==
    /\ d.characters # Null /\ Len(The(d.characters)) > 0
    /\ ExtractThrows(The(d.characters)[1])

\* The character block of the constructor, applied to the fields f; the
\* assignment of episodeTitles is not reached when the extraction throws.
ReadCharacter(f, d) ==
    IF d.characters # Null /\ Len(The(d.characters)) > 0
    THEN LET mainChar == The(d.characters)[1]
         IN  [f EXCEPT
                 !.characterName = OrElse(mainChar.name, <<"Character">>),
                 !.totalEpisodes =
                     IF mainChar.alternate_greetings # Null
                     THEN 1 + Len(The(mainChar.alternate_greetings))
                     ELSE 1,
                 !.episodeTitles =
                     IF ExtractThrows(mainChar) THEN f.episodeTitles
                     ELSE extractEpisodeTitles(mainChar)]
    ELSE f

\* A constructor that seeds the navigation state from the persisted snapshots.
constructorSeeded(d) ==
    ReadCharacter(
        [StageFields EXCEPT
            !.currentEpisode =
                IF d.messageState = Null THEN 0 ELSE The(d.messageState).currentEpisode,
            !.highestEpisodeReached =
                IF d.chatState = Null THEN 0 ELSE The(d.chatState).highestEpisodeReached,
            !.completed =
                IF d.chatState = Null THEN FALSE ELSE The(d.chatState).completed],
        d)

\* The fields of a Stage built from d: d.chatState and d.messageState are
\* logged and not read.
constructor(d) == ReadCharacter(StageFields, d)

\* ------------------------------------------------------------------------
\* Debug log
\* ------------------------------------------------------------------------

\* Entries addDebugLog keeps.
DebugLogCap == 50

\* An addDebugLog that keeps the first DebugLogCap entries.
addDebugLogKeepOldest(log, timestamp) ==
    LET pushed == Append(log, timestamp)
    IN  IF Len(pushed) > DebugLogCap
        THEN SubSeq(pushed, 1, DebugLogCap)
        ELSE pushed

\* addDebugLog: push, then keep the last DebugLogCap entries.
addDebugLog(log, timestamp) ==
    LET pushed == Append(log, timestamp)
    IN  IF Len(pushed) > DebugLogCap
        THEN SubSeq(pushed, Len(pushed) - DebugLogCap + 1, Len(pushed))
        ELSE pushed

\* n calls of addDebugLog in a row.
RECURSIVE LogEvents(_, _, _)
LogEvents(log, clock, n) ==
    IF n = 0 THEN log ELSE LogEvents(addDebugLog(log, clock + 1), clock + 1, n - 1)

\* What a callback that reads getDebugLog() has seen last after n calls of
\* addDebugLog in a row: each call invokes it after the push and before the
\* slice.
RECURSIVE CallbackView(_, _, _, _)
CallbackView(seen, log, clock, n) ==
    IF n = 0
    THEN seen
    ELSE CallbackView(Some(Append(log, clock + 1)), addDebugLog(log, clock + 1),
                      clock + 1, n - 1)

\* ------------------------------------------------------------------------
\* Initial state
\* ------------------------------------------------------------------------

NoResponse ==
    [event |-> "none", initState |-> Null, chatState |-> Null,
     messageState |-> Null, stateMessage |-> Null, systemMessage |-> Null]

\* The state after new Stage(d), for some d of inputs: the constructor logs
\* one event. Where it throws, the caller gets no Stage and no method of it
\* is ever called.
Constructed(inputs) ==
    /\ data \in inputs
    /\ config = MergeConfig(data)
    /\ currentEpisode = constructor(data).currentEpisode
    /\ totalEpisodes = constructor(data).totalEpisodes
    /\ episodeTitles = constructor(data).episodeTitles
    /\ characterName = constructor(data).characterName
    /\ highestEpisodeReached = constructor(data).highestEpisodeReached
    /\ completed = constructor(data).completed
    /\ now = 1
    /\ debugLog = LogEvents(<<>>, 0, 1)
    /\ response = NoResponse
    /\ lastOp = "constructor"
    /\ thrown = IF ConstructorThrows(data) THEN Some("TypeError") ELSE Null
    /\ onDebugUpdate = Null
    /\ observed = Null

Init == Constructed(NewChatData) /\ twin = Null

\* ------------------------------------------------------------------------
\* Snapshots
\* ------------------------------------------------------------------------

\* this.episodeTitles[i]: undefined outside the array.
TitleAt(titles, i) ==
    IF i + 1 \in 1..Len(titles) THEN Some(titles[i + 1]) ELSE Null

\* A display text that leaves the numbers out when showEpisodeNumber is off.
StateMessageIfNumbered ==
    IF config.showEpisodeNumber
    THEN <<"Episode ">> \o NumStr(currentEpisode + 1) \o <<"/">> \o NumStr(totalEpisodes)
    ELSE <<"Episode">>

\* `Episode ${this.currentEpisode + 1}/${this.totalEpisodes}`
StateMessage ==
    <<"Episode ">> \o NumStr(currentEpisode + 1) \o <<"/">> \o NumStr(totalEpisodes)

\* A context string injected whatever config.injectContext says.
SystemMessageAlways ==
    LET episodeTitle ==
            OrElse(TitleAt(episodeTitles, currentEpisode),
                   DefaultTitle(currentEpisode + 1))
    IN  Some(<<"[Chubflix Episode Context: Currently on ">> \o episodeTitle
             \o <<" (">> \o NumStr(currentEpisode + 1) \o <<"/">>
             \o NumStr(totalEpisodes)
             \o <<"). Maintain narrative continuity with previous episodes.]">>)

\* A context string that puts the title between double quotes.
SystemMessageQuoted ==
    IF config.injectContext
    THEN LET episodeTitle ==
                 OrElse(TitleAt(episodeTitles, currentEpisode),
                        DefaultTitle(currentEpisode + 1))
         IN  Some(<<"[Chubflix Episode Context: Currently on ", "\"">> \o episodeTitle
                  \o <<"\"", " (">> \o NumStr(currentEpisode + 1) \o <<"/">>
                  \o NumStr(totalEpisodes)
                  \o <<"). Maintain narrative continuity with previous episodes.]">>)
    ELSE Null

\* addSystem of beforePrompt: null unless config.injectContext.
SystemMessage ==
    IF config.injectContext
    THEN LET episodeTitle ==
                 OrElse(TitleAt(episodeTitles, currentEpisode),
                        DefaultTitle(currentEpisode + 1))
         IN  Some(<<"[Chubflix Episode Context: Currently on ">> \o episodeTitle
                  \o <<" (">> \o NumStr(currentEpisode + 1) \o <<"/">>
                  \o NumStr(totalEpisodes)
                  \o <<"). Maintain narrative continuity with previous episodes.]">>)
    ELSE Null

\* An init snapshot that counts an index past the catalog as an episode.
InitSnapshotStretched ==
    [totalEpisodes |-> Max(totalEpisodes, currentEpisode + 1),
     characterName |-> characterName,
     episodeTitles |-> episodeTitles]

\* initState of load's response.
InitSnapshot ==
    [totalEpisodes |-> totalEpisodes, characterName |-> characterName,
     episodeTitles |-> episodeTitles]

\* chatState of load's response.
LoadChatState ==
    [highestEpisodeReached |-> highestEpisodeReached, completed |-> completed]

\* chatState of beforePrompt's response.
BeforePromptChatState ==
    [highestEpisodeReached |-> Max(highestEpisodeReached, currentEpisode),
     completed |-> completed]

\* A chat snapshot that reports completion one episode early.
AfterResponseChatStateEarly ==
    [highestEpisodeReached |-> Max(highestEpisodeReached, currentEpisode),
     completed |-> currentEpisode >= totalEpisodes - 2]

\* chatState of afterResponse's response.
AfterResponseChatState ==
    [highestEpisodeReached |-> Max(highestEpisodeReached, currentEpisode),
     completed |-> currentEpisode >= totalEpisodes - 1]

\* A turn snapshot that carries the highest episode reached as its index.
TurnMessageStateHighest(event) ==
    [currentEpisode |-> Max(highestEpisodeReached, currentEpisode),
     startedAt |-> now + 1, lastEvent |-> event]

\* messageState of a turn response; startedAt is read after the first of the
\* handler's two log entries.
TurnMessageState(event) ==
    [currentEpisode |-> currentEpisode, startedAt |-> now + 1, lastEvent |-> event]

\* ------------------------------------------------------------------------
\* A second instance
\* ------------------------------------------------------------------------

\* The fields of a Stage built from d, with its merged config and the last
\* response it returned.
Instance(d) ==
    [config |-> MergeConfig(d),
     currentEpisode |-> constructor(d).currentEpisode,
     totalEpisodes |-> constructor(d).totalEpisodes,
     episodeTitles |-> constructor(d).episodeTitles,
     characterName |-> constructor(d).characterName,
     highestEpisodeReached |-> constructor(d).highestEpisodeReached,
     completed |-> constructor(d).completed,
     response |-> NoResponse]

\* `Episode ${this.currentEpisode + 1}/${this.totalEpisodes}` of instance t.
StateMessageOf(t) ==
    <<"Episode ">> \o NumStr(t.currentEpisode + 1) \o <<"/">>
        \o NumStr(t.totalEpisodes)

\* addSystem of beforePrompt of instance t.
SystemMessageOf(t) ==
    IF t.config.injectContext
    THEN LET episodeTitle ==
                 OrElse(TitleAt(t.episodeTitles, t.currentEpisode),
                        DefaultTitle(t.currentEpisode + 1))
         IN  Some(<<"[Chubflix Episode Context: Currently on ">> \o episodeTitle
                  \o <<" (">> \o NumStr(t.currentEpisode + 1) \o <<"/">>
                  \o NumStr(t.totalEpisodes)
                  \o <<"). Maintain narrative continuity with previous episodes.]">>)
    ELSE Null

\* messageState of a turn response of instance t, at the clock of the call.
TurnMessageStateOf(t, event, clock) ==
    [currentEpisode |-> t.currentEpisode, startedAt |-> clock + 1,
     lastEvent |-> event]

\* load() of instance t.
LoadOf(t) ==
    [t EXCEPT !.response =
        [event |-> "load",
         initState |-> Some([totalEpisodes |-> t.totalEpisodes,
                             characterName |-> t.characterName,
                             episodeTitles |-> t.episodeTitles]),
         chatState |-> Some([highestEpisodeReached |-> t.highestEpisodeReached,
                             completed |-> t.completed]),
         messageState |-> Null, stateMessage |-> Null, systemMessage |-> Null]]

\* beforePrompt() of instance t.
BeforePromptOf(t, clock) ==
    [t EXCEPT !.response =
        [event |-> "beforePrompt", initState |-> Null,
         chatState |->
             Some([highestEpisodeReached |->
                       Max(t.highestEpisodeReached, t.currentEpisode),
                   completed |-> t.completed]),
         messageState |-> Some(TurnMessageStateOf(t, "beforePrompt", clock)),
         stateMessage |-> Some(StateMessageOf(t)),
         systemMessage |-> SystemMessageOf(t)]]

\* afterResponse() of instance t.
AfterResponseOf(t, clock) ==
    [t EXCEPT !.response =
        [event |-> "afterResponse", initState |-> Null,
         chatState |->
             Some([highestEpisodeReached |->
                       Max(t.highestEpisodeReached, t.currentEpisode),
                   completed |-> t.currentEpisode >= t.totalEpisodes - 1]),
         messageState |-> Some(TurnMessageStateOf(t, "afterResponse", clock)),
         stateMessage |-> Some(StateMessageOf(t)),
         systemMessage |-> Null]]

\* setState(state) of instance t.
SetStateOf(t, state) ==
    IF state = Null THEN t
    ELSE [t EXCEPT !.currentEpisode =
             IF The(state).currentEpisode = Null THEN 0
             ELSE The(The(state).currentEpisode)]

\* goToNextEpisode() of instance t.
GoToNextEpisodeOf(t) ==
    IF t.currentEpisode < t.totalEpisodes - 1
    THEN [t EXCEPT
             !.currentEpisode = t.currentEpisode + 1,
             !.highestEpisodeReached =
                 Max(t.highestEpisodeReached, t.currentEpisode + 1),
             !.completed =
                 IF t.currentEpisode + 1 >= t.totalEpisodes - 1
                 THEN TRUE ELSE t.completed]
    ELSE t

\* goToPreviousEpisode() of instance t.
GoToPreviousEpisodeOf(t) ==
    IF t.currentEpisode > 0
    THEN [t EXCEPT !.currentEpisode = t.currentEpisode - 1]
    ELSE t

\* ------------------------------------------------------------------------
\* Operations
\* ------------------------------------------------------------------------

catalog == <<data, config, totalEpisodes, episodeTitles, characterName>>

\* observed after n calls of addDebugLog: the callback is invoked only where
\* onDebugUpdate is set.
Notified(n) ==
    IF onDebugUpdate = Null
    THEN observed
    ELSE CallbackView(observed, debugLog, now, n)

\* load(): returns the init snapshot and the chat snapshot; logs one event.
load ==
    /\ thrown = Null
    /\ now + 1 <= MaxNow
    /\ response' =
           [event |-> "load", initState |-> Some(InitSnapshot),
            chatState |-> Some(LoadChatState), messageState |-> Null,
            stateMessage |-> Null, systemMessage |-> Null]
    /\ debugLog' = LogEvents(debugLog, now, 1)
    /\ observed' = Notified(1)
    /\ now' = now + 1
    /\ lastOp' = "load"
    /\ twin' = {LoadOf(t) : t \in twin}
    /\ UNCHANGED <<catalog, thrown, onDebugUpdate, currentEpisode,
                   highestEpisodeReached, completed>>

\* beforePrompt(userMessage): the message is only echoed into the log and the
\* response; logs two events.
beforePrompt ==
    /\ thrown = Null
    /\ now + 2 <= MaxNow
    /\ response' =
           [event |-> "beforePrompt", initState |-> Null,
            chatState |-> Some(BeforePromptChatState),
            messageState |-> Some(TurnMessageState("beforePrompt")),
            stateMessage |-> Some(StateMessage), systemMessage |-> SystemMessage]
    /\ debugLog' = LogEvents(debugLog, now, 2)
    /\ observed' = Notified(2)
    /\ now' = now + 2
    /\ lastOp' = "beforePrompt"
    /\ twin' = {BeforePromptOf(t, now) : t \in twin}
    /\ UNCHANGED <<catalog, thrown, onDebugUpdate, currentEpisode,
                   highestEpisodeReached, completed>>

\* afterResponse(botMessage): logs two events.
afterResponse ==
    /\ thrown = Null
    /\ now + 2 <= MaxNow
    /\ response' =
           [event |-> "afterResponse", initState |-> Null,
            chatState |-> Some(AfterResponseChatState),
            messageState |-> Some(TurnMessageState("afterResponse")),
            stateMessage |-> Some(StateMessage), systemMessage |-> Null]
    /\ debugLog' = LogEvents(debugLog, now, 2)
    /\ observed' = Notified(2)
    /\ now' = now + 2
    /\ lastOp' = "afterResponse"
    /\ twin' = {AfterResponseOf(t, now) : t \in twin}
    /\ UNCHANGED <<catalog, thrown, onDebugUpdate, currentEpisode,
                   highestEpisodeReached, completed>>

\* The turn snapshots the host may hand to setState: none, one without an
\* index, or one with an index.
RestoreStates ==
    {Null, Some([currentEpisode |-> Null])}
    \cup {Some([currentEpisode |-> Some(k)]) : k \in (0 - 1)..MaxRestore}

\* A restore that keeps the index inside the catalog.
RestoredEpisodeClamped(state) ==
    IF state.currentEpisode = Null THEN 0
    ELSE Max(0, IF The(state.currentEpisode) < totalEpisodes
                THEN The(state.currentEpisode) ELSE totalEpisodes - 1)

\* A restore that reads the index as a position counted from 1.
RestoredEpisodeOneBased(state) ==
    IF state.currentEpisode = Null \/ The(state.currentEpisode) = 0
    THEN 0
    ELSE The(state.currentEpisode) - 1

\* state.currentEpisode || 0
RestoredEpisode(state) ==
    IF state.currentEpisode = Null \/ The(state.currentEpisode) = 0
    THEN 0
    ELSE The(state.currentEpisode)

\* setState(state): logs one event; assigns only when state is truthy.
setStateWith(state) ==
    /\ thrown = Null
    /\ now + 1 <= MaxNow
    /\ debugLog' = LogEvents(debugLog, now, 1)
    /\ observed' = Notified(1)
    /\ now' = now + 1
    /\ currentEpisode' =
           IF state # Null THEN RestoredEpisode(The(state)) ELSE currentEpisode
    /\ lastOp' = "setState"
    /\ twin' = {SetStateOf(t, state) : t \in twin}
    /\ UNCHANGED <<catalog, thrown, onDebugUpdate, highestEpisodeReached,
                   completed, response>>

\* The host restores some turn snapshot.
setState == \E state \in RestoreStates : setStateWith(state)

\* A guard of goToNextEpisode that lets it step past the last episode.
CanGoNextOffByOne == currentEpisode < totalEpisodes

\* The guard of goToNextEpisode.
CanGoNext == currentEpisode < totalEpisodes - 1

\* A goToNextEpisode that forgets the maximum.
NextHighestNoMax == currentEpisode + 1

\* highestEpisodeReached after goToNextEpisode has moved.
NextHighest == Max(highestEpisodeReached, currentEpisode + 1)

\* A goToNextEpisode whose completion test is off by one.
NextCompletedOffByOne ==
    IF currentEpisode + 1 >= totalEpisodes THEN TRUE ELSE completed

\* completed after goToNextEpisode has moved.
NextCompleted ==
    IF currentEpisode + 1 >= totalEpisodes - 1 THEN TRUE ELSE completed

\* goToNextEpisode(): moves and logs only below the last episode.
goToNextEpisode ==
    /\ thrown = Null
    /\ lastOp' = "goToNextEpisode"
    /\ twin' = {GoToNextEpisodeOf(t) : t \in twin}
    /\ IF CanGoNext
       THEN /\ now + 1 <= MaxNow
            /\ currentEpisode' = currentEpisode + 1
            /\ highestEpisodeReached' = NextHighest
            /\ completed' = NextCompleted
            /\ debugLog' = LogEvents(debugLog, now, 1)
            /\ observed' = Notified(1)
            /\ now' = now + 1
       ELSE UNCHANGED <<currentEpisode, highestEpisodeReached, completed,
                        debugLog, now, observed>>
    /\ UNCHANGED <<catalog, thrown, onDebugUpdate, response>>

\* goToPreviousEpisode(): moves and logs only above the first episode.
goToPreviousEpisode ==
    /\ thrown = Null
    /\ lastOp' = "goToPreviousEpisode"
    /\ twin' = {GoToPreviousEpisodeOf(t) : t \in twin}
    /\ IF currentEpisode > 0
       THEN /\ now + 1 <= MaxNow
            /\ currentEpisode' = currentEpisode - 1
            /\ debugLog' = LogEvents(debugLog, now, 1)
            /\ observed' = Notified(1)
            /\ now' = now + 1
       ELSE UNCHANGED <<currentEpisode, debugLog, now, observed>>
    /\ UNCHANGED <<catalog, thrown, onDebugUpdate, highestEpisodeReached,
                   completed, response>>

\* addDebugLog(event, data), called from outside the Stage: the method is
\* public.
addDebugLogCall ==
    /\ thrown = Null
    /\ now + 1 <= MaxLogged
    /\ debugLog' = addDebugLog(debugLog, now + 1)
    /\ observed' = Notified(1)
    /\ now' = now + 1
    /\ lastOp' = "addDebugLog"
    /\ twin' = twin
    /\ UNCHANGED <<catalog, thrown, onDebugUpdate, currentEpisode,
                   highestEpisodeReached, completed, response>>

\* clearDebugLog()
clearDebugLog ==
    /\ thrown = Null
    /\ debugLog' = <<>>
    /\ lastOp' = "clearDebugLog"
    /\ twin' = twin
    /\ UNCHANGED <<catalog, thrown, onDebugUpdate, observed, currentEpisode,
                   highestEpisodeReached, completed, now, response>>

\* stage.onDebugUpdate = () => { updateDebugLog(); ... }: the harness sets the
\* public field to a callback that reads getDebugLog().
setOnDebugUpdate ==
    /\ thrown = Null
    /\ onDebugUpdate' = Some("updateDebugLog")
    /\ UNCHANGED <<catalog, thrown, currentEpisode, highestEpisodeReached,
                   completed, debugLog, now, response, lastOp, twin, observed>>

Next ==
    \/ load
    \/ beforePrompt
    \/ afterResponse
    \/ setState
    \/ goToNextEpisode
    \/ goToPreviousEpisode
    \/ clearDebugLog

Spec == Init /\ [][Next]_vars

\* A chat resumed from persisted snapshots: the host constructs the Stage with
\* any construction input and then drives its lifecycle handlers.
InitResumed == Constructed(InitialData) /\ twin = Null

NextLifecycle ==
    \/ load
    \/ beforePrompt
    \/ afterResponse

SpecResumed == InitResumed /\ [][NextLifecycle]_vars

\* The title catalog: the host constructs the Stage for a character of the
\* greeting pool and loads it, once.
InitCatalog == Constructed(CatalogData) /\ twin = Null

NextCatalog == lastOp = "constructor" /\ load

SpecCatalog == InitCatalog /\ [][NextCatalog]_vars

\* A playthrough: from construction on, the user advances and the host
\* reports the end of a turn, in turns.
NextPlaythrough ==
    \/ lastOp \in {"constructor", "afterResponse"} /\ goToNextEpisode
    \/ lastOp = "goToNextEpisode" /\ afterResponse

SpecPlaythrough == InitResumed /\ [][NextPlaythrough]_vars

\* Settings of the options that only the rendering reads.
CosmeticConfigs ==
    {[showProgress |-> FALSE],
     [showEpisodeNumber |-> FALSE, showProgress |-> FALSE,
      buttonText |-> "Continue", theme |-> "noir"]}

\* The supplied config cfg with the rendering options of c added:
\* injectContext is as in cfg, set or not set.
WithCosmetics(cfg, c) ==
    LET inject == IF cfg # Null /\ "injectContext" \in DOMAIN The(cfg)
                  THEN {"injectContext"} ELSE {}
    IN  Some([k \in DOMAIN c \cup inject |->
                 IF k \in DOMAIN c THEN c[k] ELSE The(cfg).injectContext])

\* The supplied config cfg without its rendering options.
WithoutCosmetics(cfg) ==
    IF cfg # Null /\ "injectContext" \in DOMAIN The(cfg)
    THEN Some([injectContext |-> The(cfg).injectContext])
    ELSE Null

\* The construction inputs of a new chat, with rendering options set.
TwinData ==
    {[d EXCEPT !.config = WithCosmetics(d.config, c)] :
        d \in NewChatData, c \in CosmeticConfigs}

\* Two instances: the host builds a second Stage from the same data but for
\* the rendering options, which it leaves at their defaults, and calls both
\* alike.
InitTwins ==
    /\ Constructed(TwinData)
    /\ twin = Some(Instance([data EXCEPT !.config = WithoutCosmetics(data.config)]))

\* The calls the host and the user make of a Stage, log clearing left out.
NextCalls ==
    \/ load
    \/ beforePrompt
    \/ afterResponse
    \/ setState
    \/ goToNextEpisode
    \/ goToPreviousEpisode

SpecTwins == InitTwins /\ [][NextCalls]_vars

\* The debug log: events are logged and the log is cleared, past the
\* capacity of the log, with and without a callback set.
NextLog ==
    \/ setOnDebugUpdate
    \/ addDebugLogCall
    \/ clearDebugLog

SpecLog == Init /\ [][NextLog]_vars

\* A chat without branch/rewind: the host never calls setState.
NextNoRestore ==
    \/ load
    \/ beforePrompt
    \/ afterResponse
    \/ goToNextEpisode
    \/ goToPreviousEpisode
    \/ clearDebugLog

SpecNoRestore == Init /\ [][NextNoRestore]_vars

\* ------------------------------------------------------------------------
\* Properties
\* ------------------------------------------------------------------------

TurnEvents == {"beforePrompt", "afterResponse"}

\* C1: after every transition, restore with any argument included,
\* 0 <= currentEpisode < totalEpisodes.
C1_EpisodeInRange == 0 <= currentEpisode /\ currentEpisode < totalEpisodes

\* C2: once an emitted chat snapshot has reported completed = true, every
\* chat snapshot emitted later reports completed = true.
C2_EmittedCompletedNeverReset ==
    [][(/\ response.chatState # Null
        /\ The(response.chatState).completed
        /\ response'.chatState # Null)
       => The(response'.chatState).completed]_vars

C4_EmittedHighestNeverDecreases ==
    [][(response.chatState # Null /\ response'.chatState # Null)
       => The(response'.chatState).highestEpisodeReached
              >= The(response.chatState).highestEpisodeReached]_vars

\* C5: the chat snapshot a turn event has just emitted is the one load()
\* would return right after it: the event stored what it reported.
C5_SnapshotIsStoredState ==
    lastOp \in TurnEvents => The(response.chatState) = LoadChatState

\* C6: right after goToNextEpisode or goToPreviousEpisode,
\* highestEpisodeReached >= currentEpisode, also after a restore above it
\* (stated for the indices inside the catalog, where the restore is a
\* jump to an existing episode).
C6_HighestCoversCurrent ==
    (/\ lastOp \in {"goToNextEpisode", "goToPreviousEpisode"}
     /\ 0 <= currentEpisode
     /\ currentEpisode < totalEpisodes)
        => highestEpisodeReached >= currentEpisode

\* C7: without restore, 0 <= currentEpisode <= totalEpisodes - 1 after any
\* sequence of advance, retreat and turn events from index 0.
C7_NavigationStaysInRange ==
    0 <= currentEpisode /\ currentEpisode <= totalEpisodes - 1

\* C7 witness: goToNextEpisode has brought a catalog of several episodes to
\* its last index.
C7_Witness ==
    /\ lastOp = "goToNextEpisode"
    /\ totalEpisodes >= 3
    /\ currentEpisode = totalEpisodes - 1

\* C8: the in-memory highestEpisodeReached does not decrease at any
\* goToNextEpisode or beforePrompt.
C8_HighestNonDecreasing ==
    [][lastOp' \in {"goToNextEpisode", "beforePrompt"}
       => highestEpisodeReached' >= highestEpisodeReached]_vars

\* C8 witness: goToNextEpisode has moved below the high-water mark, where
\* only the maximum keeps the mark.
C8_Witness ==
    /\ lastOp = "goToNextEpisode"
    /\ currentEpisode >= 1
    /\ highestEpisodeReached > currentEpisode

\* C9: a load() issued first on a Stage constructed with a persisted chat
\* snapshot returns that chat snapshot.
C9_LoadReturnsPersistedChatState ==
    (lastOp = "load" /\ now = 2 /\ data.chatState # Null)
        => response.chatState = data.chatState

HasCharacter == data.characters # Null /\ Len(The(data.characters)) > 0

MainChar == The(data.characters)[1]

\* The alternate greetings of the main character, none when absent.
AltsOf(ch) ==
    IF ch.alternate_greetings = Null THEN <<>> ELSE The(ch.alternate_greetings)

\* The character supplies a primary greeting.
HasPrimary(ch) == ch.first_mes # Null /\ The(ch.first_mes) # <<>>

\* C11: the init snapshot holds exactly 1 + count(alternate greetings)
\* titles, as many as totalEpisodes; the title at index 0 derives from the
\* primary greeting and the title at index i + 1 from alternate greeting i.
C11_CatalogMatchesGreetings ==
    (response.event = "load" /\ HasCharacter)
        => LET init == The(response.initState)
               alts == AltsOf(MainChar)
           IN  /\ init.totalEpisodes = 1 + Len(alts)
               /\ Len(init.episodeTitles) = init.totalEpisodes
               /\ HasPrimary(MainChar)
                    => init.episodeTitles[1] =
                           OrElse(extractTitleFromGreeting(The(MainChar.first_mes)),
                                  DefaultTitle(1))
               /\ \A i \in 1..Len(alts) :
                      init.episodeTitles[i + 1] =
                          OrElse(extractTitleFromGreeting(alts[i]), DefaultTitle(i + 1))

\* C12: with no character, or with a character that has neither a primary
\* greeting nor alternate greetings, the init snapshot reports one episode
\* and holds exactly one title.
C12_SingleSynthesizedEpisode ==
    (/\ response.event = "load"
     /\ \/ ~HasCharacter
        \/ (~HasPrimary(MainChar) /\ MainChar.alternate_greetings = Null))
        => /\ The(response.initState).totalEpisodes = 1
           /\ Len(The(response.initState).episodeTitles) = 1

\* C13: when the character has no name, or there is no character, the init
\* snapshot carries the placeholder name.
C13_PlaceholderName ==
    (/\ response.event = "load"
     /\ \/ ~HasCharacter
        \/ MainChar.name = Null
        \/ The(MainChar.name) = <<>>)
        => The(response.initState).characterName = <<"Character">>

\* ------------------------------------------------------------------------
\* Properties of title extraction
\* ------------------------------------------------------------------------

\* The greetings of a character in catalog order: the greetings that
\* extractEpisodeTitles pushes a title for.
GreetingsOf(ch) ==
    (IF HasPrimary(ch) THEN <<The(ch.first_mes)>> ELSE <<>>) \o AltsOf(ch)

\* Title extraction yields absence or the empty string.
ExtractionFails(greeting) ==
    extractTitleFromGreeting(greeting) \in {Null, Some(<<>>)}

StartsWithWord(t, word) ==
    /\ Len(t) >= Len(word)
    /\ \A i \in 1..Len(word) : Lower(t[i]) = word[i]

\* The positions e at which a non-empty run of characters that starts at
\* from and has no line break is followed by a line break or by the end.
RestOfLine(t, from) ==
    {e \in from..Len(t) :
        /\ \A i \in from..e : t[i] \notin {"\n", "\r"}
        /\ (e = Len(t) \/ t[e + 1] = "\n")}

\* Every way t can be read as **X** followed by anything, X one or more
\* characters other than *: the texts X.
BoldShapes(t) ==
    IF ~StartsWithWord(t, <<"*", "*">>) THEN {}
    ELSE {SubSeq(t, 3, j - 1) :
             j \in {j \in 4..(Len(t) - 1) :
                       /\ t[j] = "*" /\ t[j + 1] = "*"
                       /\ \A i \in 3..(j - 1) : t[i] # "*"}}

\* Every way t can be read as #, whitespace, X, and a line break or the end,
\* X one or more characters of one line: the texts X.
HeadingShapes(t) ==
    IF ~StartsWithWord(t, <<"#">>) THEN {}
    ELSE UNION {{SubSeq(t, k + 1, e) : e \in RestOfLine(t, k + 1)} :
                   k \in {k \in 2..Len(t) : \A i \in 2..k : IsSpace(t[i])}}

\* Every way t can be read as "X" followed by anything, X one or more
\* characters other than the double quote: the texts X.
QuotedShapes(t) ==
    IF ~StartsWithWord(t, <<"\"">>) THEN {}
    ELSE {SubSeq(t, 2, j - 1) :
             j \in {j \in 3..Len(t) :
                       /\ t[j] = "\""
                       /\ \A i \in 2..(j - 1) : t[i] # "\""}}

\* Every way t can be read as the word Episode in any case, whitespace, a
\* number, a colon, optional whitespace, X, and a line break or the end,
\* X one or more characters of one line: the texts X.
EpisodeShapes(t) ==
    IF ~StartsWithWord(t, <<"e", "p", "i", "s", "o", "d", "e">>) THEN {}
    ELSE UNION {UNION {UNION {{SubSeq(t, c + 1, e) : e \in RestOfLine(t, c + 1)} :
                    c \in {c \in (b + 1)..Len(t) :
                              t[b + 1] = ":" /\ \A i \in (b + 2)..c : IsSpace(t[i])}} :
                    b \in {b \in (a + 1)..(Len(t) - 1) :
                              \A i \in (a + 1)..b : IsDigit(t[i])}} :
                    a \in {a \in 8..Len(t) : \A i \in 8..a : IsSpace(t[i])}}

\* The shapes of the first pattern, in the order bold, heading, quoted,
\* episode, that the text can be read as; empty when it fits no pattern.
FirstPatternShapes(t) ==
    IF BoldShapes(t) # {} THEN BoldShapes(t)
    ELSE IF HeadingShapes(t) # {} THEN HeadingShapes(t)
    ELSE IF QuotedShapes(t) # {} THEN QuotedShapes(t)
    ELSE EpisodeShapes(t)

\* The greetings of the main character whose trimmed text fits a pattern.
PatternGreetings ==
    IF HasCharacter
    THEN {g \in {GreetingsOf(MainChar)[i] : i \in 1..Len(GreetingsOf(MainChar))} :
             FirstPatternShapes(trim(g)) # {}}
    ELSE {}

\* C15: the title extracted from a greeting whose trimmed text fits one of
\* the patterns bold, heading, quoted, episode is a trimmed capture of the
\* first of them, in that order, that it fits: never absence, never the
\* fallback's reading of the first line, never a capture of a later pattern.
C15_FirstPatternWins ==
    \A g \in PatternGreetings :
        extractTitleFromGreeting(g)
            \in {Some(trim(x)) : x \in FirstPatternShapes(trim(g))}

\* A loaded Stage whose primary greeting fits the quoted pattern with a
\* capture that trimming shortens to a non-empty title, which the catalog has.
C15_Witness ==
    /\ response.event = "load"
    /\ HasCharacter /\ HasPrimary(MainChar)
    /\ LET t == trim(The(MainChar.first_mes))
       IN  /\ BoldShapes(t) = {} /\ HeadingShapes(t) = {}
           /\ \E x \in QuotedShapes(t) :
                 /\ trim(x) # x /\ trim(x) # <<>>
                 /\ The(response.initState).episodeTitles[1] = trim(x)

\* The first line of a text: its characters before the first line break.
FirstLineOf(t) ==
    LET n == CHOOSE n \in 0..Len(t) :
                 /\ \A i \in 1..n : t[i] # "\n"
                 /\ (n = Len(t) \/ t[n + 1] = "\n")
    IN  SubSeq(t, 1, n)

\* The greetings of the main character whose trimmed text fits no pattern.
FallbackGreetings ==
    IF HasCharacter
    THEN {g \in {GreetingsOf(MainChar)[i] : i \in 1..Len(GreetingsOf(MainChar))} :
             FirstPatternShapes(trim(g)) = {}}
    ELSE {}

\* C16, as stated: when no pattern fits, a first line of the trimmed text of
\* at most 50 characters gives the line without its markers, trimmed, and a
\* longer first line gives absence.
C16_FallbackByLengthOnly ==
    \A g \in FallbackGreetings :
        LET line == FirstLineOf(trim(g))
        IN  extractTitleFromGreeting(g) =
                IF Len(line) <= 50 THEN Some(trim(StripMarkers(line))) ELSE Null

\* C16, amended: when no pattern fits, a non-empty first line of the trimmed
\* text of at most 50 characters gives the line without its markers,
\* trimmed; an empty first line (a blank greeting) and a first line of more
\* than 50 characters give absence.
C16_FallbackTitle ==
    \A g \in FallbackGreetings :
        LET line == FirstLineOf(trim(g))
        IN  extractTitleFromGreeting(g) =
                IF 1 <= Len(line) /\ Len(line) <= 50
                THEN Some(trim(StripMarkers(line)))
                ELSE Null

\* A loaded Stage whose primary greeting fits no pattern and has a first
\* line of exactly 50 characters, which is its title in the catalog.
C16_Witness ==
    /\ response.event = "load"
    /\ HasCharacter /\ HasPrimary(MainChar)
    /\ The(MainChar.first_mes) \in FallbackGreetings
    /\ LET line == FirstLineOf(trim(The(MainChar.first_mes)))
       IN  /\ Len(line) = 50
           /\ The(response.initState).episodeTitles[1] = trim(StripMarkers(line))

\* ------------------------------------------------------------------------
\* Properties of the injected context
\* ------------------------------------------------------------------------

\* The injectContext option the Stage was constructed with: the supplied
\* config's, or true when no config or no such option was supplied.
SuppliedInjectContext ==
    IF data.config # Null /\ "injectContext" \in DOMAIN The(data.config)
    THEN The(data.config).injectContext
    ELSE TRUE

\* C17: the response of a before-turn event has a system message exactly
\* when injectContext is enabled (the default without a config), and no
\* other response has one.
C17_SystemMessageOnlyBeforeTurn ==
    /\ response.event = "beforePrompt"
           => (response.systemMessage # Null <=> SuppliedInjectContext)
    /\ response.event # "beforePrompt" => response.systemMessage = Null

\* A before-turn event of a Stage constructed with injectContext false.
C17_Witness ==
    /\ response.event = "beforePrompt"
    /\ ~SuppliedInjectContext
    /\ response.systemMessage = Null

\* The episode index a before-turn response was computed at.
ContextEpisode == The(response.messageState).currentEpisode

\* The title the context names for episode index i: the catalog's entry, or
\* Episode i+1 where the catalog has none.
ContextTitle(i) ==
    IF 0 <= i /\ i < Len(episodeTitles)
    THEN episodeTitles[i + 1]
    ELSE <<"Episode ">> \o NumStr(i + 1)

SnapshotAt(k) == Some([currentEpisode |-> Some(k)])

\* C19: a restore to a snapshot that carries an index makes that index the
\* current episode as given, in or out of the catalog's range, and no
\* restore changes highestEpisodeReached or completed.
C19_RestoreSetsIndexAsGiven ==
    [][/\ \A k \in (0 - 1)..MaxRestore :
              setStateWith(SnapshotAt(k)) => currentEpisode' = k
       /\ lastOp' = "setState"
              => /\ highestEpisodeReached' = highestEpisodeReached
                 /\ completed' = completed]_vars

\* A restore has put the current episode past the last one, after an
\* advance had raised highestEpisodeReached.
C19_Witness ==
    /\ lastOp = "setState"
    /\ currentEpisode >= totalEpisodes
    /\ highestEpisodeReached >= 1
    /\ highestEpisodeReached < currentEpisode

\* C20: a restore without an index, be it that the snapshot is missing or
\* that it has no currentEpisode, makes the current episode 0, here from any
\* episode of the catalog.
C20_AbsentIndexRestoresZero ==
    [][(/\ 0 <= currentEpisode /\ currentEpisode < totalEpisodes
        /\ (setStateWith(Null) \/ setStateWith(Some([currentEpisode |-> Null]))))
           => currentEpisode' = 0]_vars

\* ------------------------------------------------------------------------
\* Properties of malformed input
\* ------------------------------------------------------------------------

\* C21: neither the construction nor any operation after it ends with an
\* exception, whatever characters, names, greetings, restore snapshots and
\* indices the host supplies.
C21_NoOperationThrows == thrown = Null

\* ------------------------------------------------------------------------
\* Properties of a playthrough
\* ------------------------------------------------------------------------

\* The advance-and-turn cycles a playthrough has been through when a turn
\* has just ended, while it has not passed the last episode: every such
\* cycle logs three events, after the one of the constructor.
CyclesDone == (now - 1) \div 3

\* A turn of a playthrough has just ended, after cycles that each moved.
AfterCycle ==
    /\ lastOp = "afterResponse"
    /\ totalEpisodes >= 2
    /\ now - 1 = 3 * CyclesDone
    /\ CyclesDone <= totalEpisodes - 1

\* C22: in a playthrough of n >= 2 episodes, the k-th cycle of an advance and
\* an after-turn event, k <= n-1, ends at episode k with highestEpisodeReached
\* k, and its chat snapshot reports completed exactly when k = n-1.
C22_PlaythroughCompletesAtLastEpisode ==
    AfterCycle
        => /\ currentEpisode = CyclesDone
           /\ highestEpisodeReached = CyclesDone
           /\ The(response.chatState).highestEpisodeReached = CyclesDone
           /\ The(response.chatState).completed
                  <=> CyclesDone = totalEpisodes - 1

\* The second cycle of a playthrough of three episodes has ended, and its
\* chat snapshot reports completed.
C22_Witness ==
    /\ AfterCycle
    /\ totalEpisodes = 3
    /\ CyclesDone = 2
    /\ currentEpisode = 2
    /\ The(response.chatState).completed

\* ------------------------------------------------------------------------
\* Properties of two instances
\* ------------------------------------------------------------------------

\* C23: an instance and a second one built from the same data but for the
\* options showEpisodeNumber, showProgress, buttonText and theme, taken
\* through the same calls, have the same navigation state, and their last
\* responses have the same display text, turn snapshot, chat snapshot, init
\* snapshot and system message.
C23_CosmeticOptionsHaveNoEffect ==
    twin # Null
        => /\ The(twin).currentEpisode = currentEpisode
           /\ The(twin).highestEpisodeReached = highestEpisodeReached
           /\ The(twin).completed = completed
           /\ The(twin).response = response

\* Two instances whose rendering options differ in all four have returned a
\* before-turn response with a system message, past the first episode.
C23_Witness ==
    /\ twin # Null
    /\ The(twin).config.showEpisodeNumber # config.showEpisodeNumber
    /\ The(twin).config.showProgress # config.showProgress
    /\ The(twin).config.buttonText # config.buttonText
    /\ The(twin).config.theme # config.theme
    /\ response.event = "beforePrompt"
    /\ response.systemMessage # Null
    /\ currentEpisode >= 1

\* ------------------------------------------------------------------------
\* Frame properties of the operations
\* ------------------------------------------------------------------------

\* C24: no step changes totalEpisodes, characterName or episodeTitles, which
\* are thus at all times what the constructor made them, and every load
\* returns the three of them as its init snapshot.
C24_InitSnapshotFixed ==
    /\ [][UNCHANGED <<totalEpisodes, characterName, episodeTitles>>]_vars
    /\ [](response.event = "load"
              => response.initState =
                     Some([totalEpisodes |-> totalEpisodes,
                           characterName |-> characterName,
                           episodeTitles |-> episodeTitles]))

\* A load after an advance and a restore to an index past the catalog.
C24_Witness ==
    /\ lastOp = "load"
    /\ response.event = "load"
    /\ highestEpisodeReached >= 1
    /\ currentEpisode >= totalEpisodes

\* C25: goToNextEpisode changes nothing, the log included, exactly when the
\* current episode is the last; from any other episode it moves on by one,
\* raises highestEpisodeReached to the new index if that is higher, and sets
\* completed when the new index is the last.
C25_AdvanceMovesUnlessLast ==
    [][goToNextEpisode
           => IF currentEpisode = totalEpisodes - 1
              THEN UNCHANGED <<currentEpisode, highestEpisodeReached,
                               completed, debugLog>>
              ELSE /\ currentEpisode' = currentEpisode + 1
                   /\ highestEpisodeReached' =
                          Max(highestEpisodeReached, currentEpisode + 1)
                   /\ currentEpisode + 1 = totalEpisodes - 1 => completed'
                   /\ currentEpisode + 1 # totalEpisodes - 1
                          => completed' = completed]_vars

\* C26: goToPreviousEpisode changes nothing exactly when the current episode
\* is the first and moves back by one from any other; it never changes
\* highestEpisodeReached or completed.
C26_RetreatMovesUnlessFirst ==
    [][goToPreviousEpisode
           => /\ currentEpisode' =
                     IF currentEpisode = 0 THEN 0 ELSE currentEpisode - 1
              /\ UNCHANGED <<highestEpisodeReached, completed>>]_vars

\* The display text for episode index i of n episodes.
DisplayText(i, n) == <<"Episode ">> \o NumStr(i + 1) \o <<"/">> \o NumStr(n)

\* C27: load, beforePrompt and afterResponse leave currentEpisode as it is,
\* and the turn snapshot and display text that beforePrompt and afterResponse
\* return carry that index: the same for both, being determined by the index
\* and the number of episodes.
C27_LifecycleKeepsIndex ==
    [][lastOp' \in {"load", "beforePrompt", "afterResponse"}
           => /\ currentEpisode' = currentEpisode
              /\ lastOp' \in {"beforePrompt", "afterResponse"}
                     => /\ response'.event = lastOp'
                        /\ The(response'.messageState).currentEpisode
                               = currentEpisode
                        /\ response'.stateMessage
                               = Some(DisplayText(currentEpisode, totalEpisodes))]_vars

\* An after-turn event at an earlier episode than the highest one reached
\* has returned the current index.
C27_Witness ==
    /\ lastOp = "afterResponse"
    /\ response.event = "afterResponse"
    /\ currentEpisode < highestEpisodeReached
    /\ The(response.messageState).currentEpisode = currentEpisode

\* ------------------------------------------------------------------------
\* Round trip of turn snapshots
\* ------------------------------------------------------------------------

\* The turn snapshot ms as the host hands it back to setState, which reads
\* its currentEpisode only.
AsRestoreState(ms) == Some([currentEpisode |-> Some(ms.currentEpisode)])

\* The last turn snapshot the Stage returned, if any.
EmittedSnapshot == response.messageState

\* C28: restoring the last turn snapshot returned, whatever was called since,
\* makes the index it was returned at (C27) the current episode again, and
\* restoring it right after it was returned leaves the current episode as
\* it is.
C28_SnapshotRoundTrip ==
    [][(/\ EmittedSnapshot # Null
        /\ setStateWith(AsRestoreState(The(EmittedSnapshot))))
           => /\ currentEpisode' = The(EmittedSnapshot).currentEpisode
              /\ lastOp \in {"beforePrompt", "afterResponse"}
                     => currentEpisode' = currentEpisode]_vars

\* A turn snapshot returned at a later episode than the first has been
\* restored after an advance beyond it.
C28_Witness ==
    /\ lastOp = "setState"
    /\ EmittedSnapshot # Null
    /\ currentEpisode = The(EmittedSnapshot).currentEpisode
    /\ currentEpisode >= 1
    /\ highestEpisodeReached > The(response.chatState).highestEpisodeReached

\* ------------------------------------------------------------------------
\* Properties of the debug log
\* ------------------------------------------------------------------------

\* The last n entries of a sequence, or all of it when it has fewer.
MostRecent(n, entries) ==
    SubSeq(entries, Max(1, Len(entries) - n + 1), Len(entries))

\* The timestamps of the events logged by a step, in the order logged.
LoggedByStep == [i \in 1..(now' - now) |-> now + i]

\* C29: the log never holds more than 50 entries; clearing empties it; and a
\* step that logs events leaves the most recent 50 of the old entries
\* followed by the new ones, in that order. By induction the log is the most
\* recent min(50, k) of the k events logged since construction or the last
\* clear.
C29_LogKeepsMostRecentFifty ==
    /\ [](Len(debugLog) <= 50)
    /\ [][/\ lastOp' = "clearDebugLog" => debugLog' = <<>>
          /\ now' > now
                 => debugLog' = MostRecent(50, debugLog \o LoggedByStep)]_vars

\* The log is full and the constructor's entry has been evicted.
C29_Witness ==
    /\ lastOp = "addDebugLog"
    /\ Len(debugLog) = 50
    /\ debugLog[1] > 1
    /\ debugLog[50] = now

\* ------------------------------------------------------------------------
\* The fallback title of the context string
\* ------------------------------------------------------------------------

\* C30: for a character with a non-empty primary greeting and without
\* restores, the catalog has a non-empty title at the current episode, and
\* every context string names the catalog's title of the episode it was
\* built at.
C30_ContextTitleFromCatalog ==
    (HasCharacter /\ HasPrimary(MainChar) /\ thrown = Null)
        => /\ 0 <= currentEpisode /\ currentEpisode < Len(episodeTitles)
           /\ episodeTitles[currentEpisode + 1] # <<>>
           /\ (response.event = "beforePrompt" /\ response.systemMessage # Null)
                  => /\ ContextEpisode + 1 \in 1..Len(episodeTitles)
                     /\ The(response.systemMessage) =
                            <<"[Chubflix Episode Context: Currently on ">>
                                \o episodeTitles[ContextEpisode + 1]
                                \o <<" (">> \o NumStr(ContextEpisode + 1)
                                \o <<"/">> \o NumStr(totalEpisodes)
                                \o <<"). Maintain narrative continuity with previous episodes.]">>

\* A context string built at the last of several episodes of a character
\* with a primary greeting.
C30_Witness ==
    /\ HasCharacter /\ HasPrimary(MainChar)
    /\ lastOp = "beforePrompt"
    /\ response.systemMessage # Null
    /\ currentEpisode >= 1
    /\ currentEpisode = totalEpisodes - 1

\* ------------------------------------------------------------------------
\* The log as the callback finds it
\* ------------------------------------------------------------------------

\* C31: a callback that reads getDebugLog() when onDebugUpdate invokes it
\* never finds more than 50 entries.
C31_CallbackSeesAtMostFifty ==
    observed # Null => Len(The(observed)) <= 50

====
